---- MODULE Spec2Model ----
(***************************************************************************)
(* Model of the Yelp star-schema ETL scripts:                              *)
(*   ETL/business_owners_and_managers_ETL.py  (Spark, function main)       *)
(*   ETL/investorsETL.py                      (pandas, __main__)           *)
(*   ETL/marketingETL.py                      (Spark, module level)        *)
(* A DataFrame is a bag of rows (a function from rows to multiplicities).  *)
(* A nullable column value is <<>> (null) or <<v>>.                        *)
(***************************************************************************)
EXTENDS Integers, Sequences, FiniteSets, Bags, TLC

\* ------------------------------------------------------------------ bounds
MaxInput == 4         \* business, review and tip records plus checkin timestamps of one run
MaxReviews == 3       \* records of the review file
MaxTips == 1          \* records of the tip file
MaxCheckins == 1      \* records of the checkin file
MaxBusiness == 2      \* records of the business file
MaxCheckinDates == 2  \* timestamps in one checkin string
MaxListings == 2      \* records of the business file of a run over listings

\* ------------------------------------------------------- nullable values
Null == <<>>
Some(v) == <<v>>
IsNull(x) == x = Null
Val(x) == x[1]

\* ------------------------------------------------------------ bag algebra
RECURSIVE SumFcn(_)
SumFcn(f) ==
  IF DOMAIN f = {} THEN 0
  ELSE LET x == CHOOSE y \in DOMAIN f : TRUE
       IN f[x] + SumFcn([y \in DOMAIN f \ {x} |-> f[y]])

\* df.select(F(row)): every row is mapped, multiplicities add up
MapBag(F(_), B) ==
  LET img == {<<x, F(x)>> : x \in DOMAIN B}
  IN [e \in {p[2] : p \in img} |->
        SumFcn([x \in {p[1] : p \in {q \in img : q[2] = e}} |-> B[x]])]

\* df.filter(P(row))
FilterBag(P(_), B) == [x \in {y \in DOMAIN B : P(y)} |-> B[x]]

\* df.distinct()
Distinct(B) == [x \in DOMAIN B |-> 1]

\* number of rows of a DataFrame
Count(B) == SumFcn(B)

\* the rows of a sequence of records, as a DataFrame
SeqToBag(s) ==
  [e \in {s[i] : i \in DOMAIN s} |-> Cardinality({i \in DOMAIN s : s[i] = e})]

\* F.explode(array column): one output row G(row, element) per element of
\* the array L(row)
ExplodeBag(L(_), G(_, _), B) ==
  LET cells == UNION {{<<x, i>> : i \in DOMAIN L(x)} : x \in DOMAIN B}
      Out(c) == G(c[1], L(c[1])[c[2]])
  IN [e \in {Out(c) : c \in cells} |->
        SumFcn([c \in {c2 \in cells : Out(c2) = e} |-> B[c[1]]])]

\* df.groupBy(K).agg(F.count(...)): one row per key, as a function from the
\* key to the number of rows of the group that Counted accepts
GroupCount(K(_), Counted(_), B) ==
  [k \in {K(x) : x \in DOMAIN B} |->
     SumFcn([x \in {y \in DOMAIN B : K(y) = k /\ Counted(y)} |-> B[x]])]

\* F.coalesce(x, F.lit(0)) and na.fill(0) on a numeric column
Fill0(x) == IF IsNull(x) THEN 0 ELSE Val(x)

\* ---------------------------------------------------------------- dates
\* A date string "yyyy-MM-dd HH:mm:ss" is modelled by its fields [y, m, d];
\* a DateType value is a day number counted from 1970-01-01.
IsLeap(y) == (y % 4 = 0 /\ y % 100 # 0) \/ y % 400 = 0

DaysInMonth(y, m) ==
  IF m = 2 THEN (IF IsLeap(y) THEN 29 ELSE 28)
  ELSE IF m \in {4, 6, 9, 11} THEN 30 ELSE 31

IsCalendarDate(t) ==
  /\ t.y \in 1..9999
  /\ t.m \in 1..12
  /\ t.d \in 1..DaysInMonth(t.y, t.m)

DaysFromCivil(y, m, d) ==
  LET yy == IF m <= 2 THEN y - 1 ELSE y
      era == yy \div 400
      yoe == yy - era * 400
      mp == IF m > 2 THEN m - 3 ELSE m + 9
      doy == (153 * mp + 2) \div 5 + d - 1
      doe == yoe * 365 + yoe \div 4 - yoe \div 100 + doy
  IN era * 146097 + doe - 719468

CivilFromDays(z0) ==
  LET z == z0 + 719468
      era == z \div 146097
      doe == z - era * 146097
      yoe == (doe - doe \div 1460 + doe \div 36524 - doe \div 146096) \div 365
      doy == doe - (365 * yoe + yoe \div 4 - yoe \div 100)
      mp == (5 * doy + 2) \div 153
      d == doy - (153 * mp + 2) \div 5 + 1
      m == IF mp < 10 THEN mp + 3 ELSE mp - 9
      y == yoe + era * 400
  IN [y |-> IF m <= 2 THEN y + 1 ELSE y, m |-> m, d |-> d]

\* F.to_date(string): null when the string is not a calendar date
to_date(t) ==
  IF IsCalendarDate(t) THEN Some(DaysFromCivil(t.y, t.m, t.d)) ELSE Null

\* F.year, F.month, F.quarter, F.dayofweek of a nullable date
year(dt) == IF IsNull(dt) THEN Null ELSE Some(CivilFromDays(Val(dt)).y)
month(dt) == IF IsNull(dt) THEN Null ELSE Some(CivilFromDays(Val(dt)).m)
quarter(dt) ==
  IF IsNull(dt) THEN Null ELSE Some((CivilFromDays(Val(dt)).m + 2) \div 3)
\* the week starts on Monday
dayofweek_monday_first(dt) ==
  IF IsNull(dt) THEN Null ELSE Some(((Val(dt) + 3) % 7) + 1)

dayofweek(dt) ==
  IF IsNull(dt) THEN Null ELSE Some(((Val(dt) + 4) % 7) + 1)

\* "%0<w>d": the decimal digits of n, zero-padded to at least w digits
RECURSIVE Digits(_, _)
Digits(n, w) ==
  IF n < 10 /\ w <= 1 THEN <<n>>
  ELSE Digits(n \div 10, w - 1) \o <<n % 10>>

\* int(digit string)
RECURSIVE DigitsToInt(_)
DigitsToInt(ds) ==
  IF ds = <<>> THEN 0
  ELSE 10 * DigitsToInt(SubSeq(ds, 1, Len(ds) - 1)) + ds[Len(ds)]

\* F.date_format(date, "yyyyMMdd")
date_format(dt) ==
  LET c == CivilFromDays(Val(dt))
  IN Digits(c.y, 4) \o Digits(c.m, 2) \o Digits(c.d, 2)

\* ------------------------------------------------------------------ strings
\* A string is the sequence of its characters.

\* Spark F.split(col, ",\s*"): the pieces between the matches of a comma and
\* the whitespace after it; leading and trailing empty pieces are kept
RECURSIVE split_comma_ws(_, _, _)
split_comma_ws(s, cur, in_delimiter) ==
  IF s = <<>> THEN <<cur>>
  ELSE IF in_delimiter /\ Head(s) = " "
         THEN split_comma_ws(Tail(s), cur, TRUE)
  ELSE IF Head(s) = ","
         THEN <<cur>> \o split_comma_ws(Tail(s), <<>>, TRUE)
  ELSE split_comma_ws(Tail(s), cur \o <<Head(s)>>, FALSE)

\* Python str.split(', '): the pieces between the occurrences of ", "
RECURSIVE str_split(_, _)
str_split(s, cur) ==
  IF s = <<>> THEN <<cur>>
  ELSE IF Len(s) >= 2 /\ s[1] = "," /\ s[2] = " "
         THEN <<cur>> \o str_split(SubSeq(s, 3, Len(s)), <<>>)
  ELSE str_split(Tail(s), cur \o <<Head(s)>>)

EmptyString == <<>>
NullLiteral == <<"n", "u", "l", "l">>

\* ------------------------------------------------------------ input domain
BusinessIds == {"b1", "b2"}
BusinessNames == {"n1", "n2"}
SourceReviewCounts == {0}
ReviewIds == {Null, Some("r")}

D_2017_12_30 == [y |-> 2017, m |-> 12, d |-> 30]
D_2017_12_31 == [y |-> 2017, m |-> 12, d |-> 31]
D_2018_01_07 == [y |-> 2018, m |-> 1, d |-> 7]
D_2018_02_05 == [y |-> 2018, m |-> 2, d |-> 5]
D_2018_02_30 == [y |-> 2018, m |-> 2, d |-> 30]   \* no calendar date

ReviewDateTexts == {D_2017_12_30, D_2018_01_07, D_2018_02_30}
TipDateTexts == {D_2017_12_31, D_2018_02_30}
CheckinDateTexts == {D_2017_12_31, D_2018_02_05, D_2018_02_30}

\* category strings
Cat_a == <<"a">>
Cat_a_b == <<"a", ",", " ", "b">>
Cat_a_a == <<"a", ",", " ", "a">>
Cat_ab_nospace == <<"a", ",", "b">>
Cat_A_a == <<"A", ",", " ", "a">>
Cat_asp_a == <<"a", " ", ",", " ", "a">>
Cat_null_b == NullLiteral \o <<",", " ", "b">>
Cat_a_null == <<"a", ",", " ">> \o NullLiteral
Cat_a_empty == <<"a", ",", " ">>

CategoryStrings ==
  {Null, Some(Cat_a), Some(Cat_a_b), Some(Cat_a_a), Some(Cat_ab_nospace),
   Some(Cat_A_a), Some(Cat_asp_a), Some(Cat_null_b), Some(Cat_a_null),
   Some(Cat_a_empty)}

\* city, state, postal_code, latitude, longitude
LocationUnknown ==
  [city |-> Null, state |-> Null, postal_code |-> Null,
   latitude |-> Null, longitude |-> Null]

LocationPhoenix ==
  [city |-> Some("Phoenix"), state |-> Some("AZ"), postal_code |-> Some("85001"),
   latitude |-> Some(33), longitude |-> Some(-112)]

Locations == {LocationUnknown, LocationPhoenix}

\* a record of the business file
BusinessRecord(b, n, rc, cats, loc) ==
  [business_id |-> b, name |-> n, review_count |-> rc, categories |-> cats,
   city |-> loc.city, state |-> loc.state, postal_code |-> loc.postal_code,
   latitude |-> loc.latitude, longitude |-> loc.longitude]

\* the source files and the states a file can be in
SourceFiles == {"business", "checkin", "review", "tip"}
FileStates == {"ok", "missing", "unreadable"}

\* the elements of a checkin string, in the order they are written
CheckinStrings ==
  UNION {[1..n -> CheckinDateTexts] : n \in 1..MaxCheckinDates}

VARIABLES
  df_business,   \* sequence of business records, in file order
  df_checkin,    \* bag of checkin records
  df_review,     \* bag of review records
  df_tip,        \* bag of tip records
  pc,            \* "load", then the script that has run
  dim_date,                   \* owners: Dim_Date
  dim_business,               \* owners: Dim_Business
  fact_business_performance,  \* owners: Fact_Business_Performance
  inv_status,                 \* investors: "none", "ok" or "error"
  inv_dim_date,               \* investors: Dim_Date
  inv_dim_business,           \* investors: Dim_Business
  inv_fact_perf,              \* investors: Fact_Business_Performance
  mkt_status,                 \* marketing: "none", "ok" or "error"
  mkt_dim_date,               \* marketing: DimDate
  dim_location,               \* owners: Dim_Location
  dim_category,               \* owners: Dim_Category
  fact_business_categories,   \* owners: Fact_Business_Categories
  inv_dim_location,           \* investors: Dim_Location
  inv_dim_category,           \* investors: Dim_Category
  inv_fact_categories,        \* investors: Fact_Business_Categories
  mkt_bridge,                 \* marketing: BusinessCategoryBridge
  source_file,                \* the state of each source file
  run_script,                 \* the script of a run: "none", "owners", "investors"
  run_step,                   \* the step of the script the run is at
  run_status,                 \* "running", "raised", "aborted" or "done"
  run_loaded,                 \* the sources whose load call has returned a frame
  run_written                 \* the tables the run has written

inputs == <<df_business, df_checkin, df_review, df_tip>>
owners_out ==
  <<dim_date, dim_business, fact_business_performance,
    dim_location, dim_category, fact_business_categories>>
inv_out ==
  <<inv_status, inv_dim_date, inv_dim_business, inv_fact_perf,
    inv_dim_location, inv_dim_category, inv_fact_categories>>
mkt_out == <<mkt_status, mkt_dim_date, mkt_bridge>>
run_vars == <<run_script, run_step, run_status, run_loaded, run_written>>
vars == <<inputs, pc, owners_out, inv_out, mkt_out, source_file, run_vars>>

\* the size of the input: its records, a checkin record counting once per
\* timestamp
InputSize ==
  Len(df_business) + Count(df_review) + Count(df_tip)
    + SumFcn([c \in DOMAIN df_checkin |-> df_checkin[c] * Len(c.date)])

InitTables ==
  /\ df_business = <<>>
  /\ df_checkin = EmptyBag
  /\ df_review = EmptyBag
  /\ df_tip = EmptyBag
  /\ pc = "load"
  /\ dim_date = EmptyBag
  /\ dim_business = EmptyBag
  /\ fact_business_performance = EmptyBag
  /\ inv_status = "none"
  /\ inv_dim_date = <<>>
  /\ inv_dim_business = <<>>
  /\ inv_fact_perf = EmptyBag
  /\ mkt_status = "none"
  /\ mkt_dim_date = EmptyBag
  /\ dim_location = EmptyBag
  /\ dim_category = EmptyBag
  /\ fact_business_categories = EmptyBag
  /\ inv_dim_location = <<>>
  /\ inv_dim_category = <<>>
  /\ inv_fact_categories = EmptyBag
  /\ mkt_bridge = EmptyBag
  /\ run_script = "none"
  /\ run_step = 0
  /\ run_status = "running"
  /\ run_loaded = {}
  /\ run_written = {}

Init ==
  /\ InitTables
  /\ source_file = [f \in SourceFiles |-> "ok"]

\* ------------------------------------------------------- source records
LoadBusiness ==
  /\ pc = "load"
  /\ InputSize < MaxInput
  /\ Len(df_business) < MaxBusiness
  /\ \E b \in BusinessIds, n \in BusinessNames, rc \in SourceReviewCounts :
       df_business' = Append(df_business,
                        BusinessRecord(b, n, rc, Null, LocationUnknown))
  /\ UNCHANGED <<df_checkin, df_review, df_tip, pc, owners_out, inv_out, mkt_out, source_file, run_vars>>

LoadCheckin ==
  /\ pc = "load"
  /\ Count(df_checkin) < MaxCheckins
  /\ \E b \in BusinessIds, ds \in CheckinStrings :
       /\ InputSize + Len(ds) <= MaxInput
       /\ df_checkin' = df_checkin (+) SetToBag({[business_id |-> b, date |-> ds]})
  /\ UNCHANGED <<df_business, df_review, df_tip, pc, owners_out, inv_out, mkt_out, source_file, run_vars>>

LoadReview ==
  /\ pc = "load"
  /\ InputSize < MaxInput
  /\ Count(df_review) < MaxReviews
  /\ \E r \in ReviewIds, b \in BusinessIds, t \in ReviewDateTexts :
       df_review' = df_review (+)
                      SetToBag({[review_id |-> r, business_id |-> b, date |-> t]})
  /\ UNCHANGED <<df_business, df_checkin, df_tip, pc, owners_out, inv_out, mkt_out, source_file, run_vars>>

LoadTip ==
  /\ pc = "load"
  /\ InputSize < MaxInput
  /\ Count(df_tip) < MaxTips
  /\ \E b \in BusinessIds, t \in TipDateTexts :
       df_tip' = df_tip (+) SetToBag({[business_id |-> b, date |-> t]})
  /\ UNCHANGED <<df_business, df_checkin, df_review, pc, owners_out, inv_out, mkt_out, source_file, run_vars>>

\* a run over listings: business records with categories and locations, and
\* one record in each of the other files
LoadListing ==
  /\ pc = "load"
  /\ Len(df_business) < MaxListings
  /\ \E b \in BusinessIds, cats \in CategoryStrings, loc \in Locations :
       df_business' = Append(df_business, BusinessRecord(b, "n1", 0, cats, loc))
  /\ UNCHANGED <<df_checkin, df_review, df_tip, pc, owners_out, inv_out, mkt_out,
                 source_file, run_vars>>

LoadActivity ==
  /\ pc = "load"
  /\ df_review = EmptyBag
  /\ df_review' = SetToBag({[review_id |-> Some("r"), business_id |-> "b1",
                             date |-> D_2018_01_07]})
  /\ df_tip' = SetToBag({[business_id |-> "b1", date |-> D_2017_12_31]})
  /\ df_checkin' = SetToBag({[business_id |-> "b1", date |-> <<D_2018_02_05>>]})
  /\ UNCHANGED <<df_business, pc, owners_out, inv_out, mkt_out,
                 source_file, run_vars>>

\* ============================ business_owners_and_managers_ETL.py: main()

\* --- Dim_Date
review_dates == MapBag(LAMBDA r : to_date(r.date), df_review)

tip_dates == MapBag(LAMBDA t : to_date(t.date), df_tip)

\* F.explode(F.split(date, ", ")): one row per element of the checkin string
checkin_dates_exploded ==
  ExplodeBag(LAMBDA c : c.date,
             LAMBDA c, e : [business_id |-> c.business_id, date_str |-> e],
             df_checkin)

checkin_dates == MapBag(LAMBDA c : to_date(c.date_str), checkin_dates_exploded)

all_dates_keeps_duplicates ==
  FilterBag(LAMBDA dt : ~IsNull(dt), (review_dates (+) tip_dates) (+) checkin_dates)

all_dates ==
  FilterBag(LAMBDA dt : ~IsNull(dt),
            Distinct((review_dates (+) tip_dates) (+) checkin_dates))

dim_date_row(dt) ==
  [date_id |-> date_format(dt),
   date |-> Val(dt),
   month |-> Val(month(dt)),
   year |-> Val(year(dt)),
   quarter |-> Val(quarter(dt)),
   is_weekend |-> Val(dayofweek(dt)) \in {1, 7}]

owners_dim_date == MapBag(dim_date_row, all_dates)

\* --- Dim_Location
owners_dim_location ==
  Distinct(MapBag(LAMBDA b : [location_id |-> b.business_id,
                              business_id |-> b.business_id,
                              city |-> b.city,
                              state |-> b.state,
                              postal_code |-> b.postal_code,
                              latitude |-> b.latitude,
                              longitude |-> b.longitude],
                  SeqToBag(df_business)))

\* --- Dim_Category and Fact_Business_Categories
\* F.split(F.col("categories"), ",\s*"): null for a null string
category_array(b) ==
  IF IsNull(b.categories) THEN Null
  ELSE Some(split_comma_ws(Val(b.categories), <<>>, FALSE))

\* the filter on the exploded elements: not null, not "", not "null"
IsCategoryName(e) == e # EmptyString /\ e # NullLiteral

\* the exploded elements are split on ", " only
business_categories_exploded_str_split ==
  FilterBag(LAMBDA r : IsCategoryName(r.category_name),
    ExplodeBag(LAMBDA b : IF IsNull(b.categories) THEN <<>>
                          ELSE str_split(Val(b.categories), <<>>),
               LAMBDA b, e : [business_id |-> b.business_id, category_name |-> e],
               SeqToBag(df_business)))

\* F.explode of a null array gives no row
business_categories_exploded ==
  FilterBag(LAMBDA r : IsCategoryName(r.category_name),
    ExplodeBag(LAMBDA b : IF IsNull(category_array(b)) THEN <<>>
                          ELSE Val(category_array(b)),
               LAMBDA b, e : [business_id |-> b.business_id, category_name |-> e],
               SeqToBag(df_business)))

category_names == {r.category_name : r \in DOMAIN business_categories_exploded}

\* F.monotonically_increasing_id(): distinct ids, in an order that depends
\* on the partitioning of the rows; here an arrangement of 0 .. n-1
CategoryIds ==
  {ids \in [category_names -> 0..(Cardinality(category_names) - 1)] :
     \A x, y \in category_names : ids[x] = ids[y] => x = y}

lower(str) == [i \in DOMAIN str |-> IF str[i] = "A" THEN "a" ELSE str[i]]

\* the names are lower-cased in the dimension only
owners_dim_category_lowercased(ids) ==
  [row \in {[category_id |-> ids[n], category_name |-> lower(n)] :
              n \in category_names} |-> 1]

owners_dim_category(ids) ==
  [row \in {[category_id |-> ids[n], category_name |-> n] :
              n \in category_names} |-> 1]

\* inner join on category_name, select business_id and category_id, distinct
owners_fact_business_categories(dimc) ==
  LET joined == {pr \in (DOMAIN business_categories_exploded) \X (DOMAIN dimc) :
                   pr[1].category_name = pr[2].category_name}
  IN [row \in {[business_id |-> pr[1].business_id,
                 category_id |-> pr[2].category_id] : pr \in joined} |-> 1]

\* --- Dim_Business
\* the second element, whatever it is
subcategory_unfiltered(b) ==
  LET arr == category_array(b)
  IN IF ~IsNull(arr) /\ Len(Val(arr)) > 1 THEN Some(Val(arr)[2]) ELSE Null

\* F.when(size(category_array) > 1 & category_array[1] not null, not "",
\* not "null", category_array[1]).otherwise(None)
subcategory(b) ==
  LET arr == category_array(b)
  IN IF /\ ~IsNull(arr)
        /\ Len(Val(arr)) > 1
        /\ Val(arr)[2] # EmptyString
        /\ Val(arr)[2] # NullLiteral
     THEN Some(Val(arr)[2])
     ELSE Null

\* groupBy("business_id").agg(F.count("review_id")): F.count of a column
\* counts the rows in which the column is not null
business_review_overall_stats ==
  GroupCount(LAMBDA r : r.business_id, LAMBDA r : ~IsNull(r.review_id), df_review)

business_base_info ==
  MapBag(LAMBDA b : [business_id |-> b.business_id, name |-> b.name,
                     subcategory |-> subcategory(b)],
         SeqToBag(df_business))

\* left join on business_id, then coalesce(overall_review_count, 0)
dim_business_row(b, stats) ==
  [business_id |-> b.business_id,
   name |-> b.name,
   subcategory |-> b.subcategory,
   overall_review_count |->
     Fill0(IF b.business_id \in DOMAIN stats THEN Some(stats[b.business_id])
           ELSE Null)]

owners_dim_business ==
  LET stats == business_review_overall_stats
  IN Distinct(MapBag(LAMBDA b : dim_business_row(b, stats), business_base_info))

\* --- Fact_Business_Performance
YearMonthKey(x) == [business_id |-> x.business_id, year |-> x.year, month |-> x.month]

df_review_ym ==
  MapBag(LAMBDA r : [review_id |-> r.review_id,
                     business_id |-> r.business_id,
                     year |-> year(to_date(r.date)),
                     month |-> month(to_date(r.date))],
         df_review)

\* a checkin record is dropped whole when one of its timestamps is no date
df_checkin_ym_drops_record ==
  MapBag(LAMBDA c : [business_id |-> c.business_id,
                     year |-> year(c.date),
                     month |-> month(c.date),
                     date |-> c.date],
         ExplodeBag(LAMBDA c : c.date,
                    LAMBDA c, e : [business_id |-> c.business_id, date |-> to_date(e)],
                    FilterBag(LAMBDA c : \A i \in DOMAIN c.date : IsCalendarDate(c.date[i]),
                              df_checkin)))

df_checkin_ym ==
  MapBag(LAMBDA c : [business_id |-> c.business_id,
                     year |-> year(c.date),
                     month |-> month(c.date),
                     date |-> c.date],
         FilterBag(LAMBDA c : ~IsNull(c.date),
                   MapBag(LAMBDA c : [business_id |-> c.business_id,
                                      date |-> to_date(c.date_str)],
                          checkin_dates_exploded)))

df_tip_ym ==
  MapBag(LAMBDA t : [business_id |-> t.business_id,
                     year |-> year(to_date(t.date)),
                     month |-> month(to_date(t.date))],
         df_tip)

\* the monthly count counts the rows, with or without review_id
review_agg_monthly_counts_rows ==
  GroupCount(YearMonthKey, LAMBDA r : TRUE, df_review_ym)

review_agg_monthly ==
  GroupCount(YearMonthKey, LAMBDA r : ~IsNull(r.review_id), df_review_ym)

checkin_agg_monthly == GroupCount(YearMonthKey, LAMBDA c : TRUE, df_checkin_ym)

tip_agg_monthly == GroupCount(YearMonthKey, LAMBDA t : TRUE, df_tip_ym)

\* the key columns of an aggregate, one row per group
KeyRows(agg) == [k \in DOMAIN agg |-> 1]

\* the checkin aggregate is left out of the key space
base_facts_monthly_without_checkins ==
  Distinct(KeyRows(review_agg_monthly) (+) KeyRows(tip_agg_monthly))

base_facts_monthly ==
  Distinct((KeyRows(review_agg_monthly) (+) KeyRows(checkin_agg_monthly))
             (+) KeyRows(tip_agg_monthly))

\* join(agg, ["business_id", "year", "month"], "left"): an equi-join, in
\* which a null key equals nothing; a key without a match gets a null count
JoinedCount(agg, k) ==
  LET hit == {j \in DOMAIN agg :
                /\ j.business_id = k.business_id
                /\ ~IsNull(k.year) /\ j.year = k.year
                /\ ~IsNull(k.month) /\ j.month = k.month}
  IN IF hit = {} THEN Null ELSE Some(agg[CHOOSE j \in hit : TRUE])

\* ... .na.fill(0): every null of a numeric column becomes 0, year and month
\* included
fact_table_monthly_joined ==
  LET ra == review_agg_monthly
      ca == checkin_agg_monthly
      ta == tip_agg_monthly
  IN MapBag(LAMBDA k : [business_id |-> k.business_id,
                        year |-> Fill0(k.year),
                        month |-> Fill0(k.month),
                        review_count_monthly |-> Fill0(JoinedCount(ra, k)),
                        checkin_count_monthly |-> Fill0(JoinedCount(ca, k)),
                        tip_count_monthly |-> Fill0(JoinedCount(ta, k))],
            base_facts_monthly)

\* Window.partitionBy("business_id").orderBy("year", "month"): the rows of
\* x's partition in table F that are ordered before x
business_window(x, F) ==
  {y \in DOMAIN F :
     /\ y.business_id = x.business_id
     /\ \/ y.year < x.year
        \/ y.year = x.year /\ y.month < x.month}

\* the count of the calendar month before x's month, null without such a row
prev_month_review_count_calendar(x, F) ==
  LET w == {y \in business_window(x, F) :
              \/ y.year = x.year /\ y.month = x.month - 1
              \/ y.year = x.year - 1 /\ y.month = 12 /\ x.month = 1}
  IN IF w = {} THEN Null
     ELSE Some((CHOOSE y \in w : TRUE).review_count_monthly)

\* F.lag("review_count_monthly", 1).over(business_window)
prev_month_review_count(x, F) ==
  LET w == business_window(x, F)
  IN IF w = {} THEN Null
     ELSE LET p == CHOOSE y \in w :
                     \A z \in w : \/ z.year < y.year
                                  \/ z.year = y.year /\ z.month <= y.month
          IN Some(p.review_count_monthly)

\* the previous count 0 is not guarded
review_growth_rate_divides_by_zero(x, F) ==
  LET prev == prev_month_review_count(x, F)
  IN IF IsNull(prev) THEN Null
     ELSE Some([num |-> x.review_count_monthly - Val(prev), den |-> Val(prev)])

\* the previous count is not subtracted
review_growth_rate_ratio(x, F) ==
  LET prev == prev_month_review_count(x, F)
  IN IF IsNull(prev) \/ Val(prev) = 0 THEN Null
     ELSE Some([num |-> x.review_count_monthly, den |-> Val(prev)])

\* the float (c - p) / p is the fraction [num |-> c - p, den |-> p]
review_growth_rate(x, F) ==
  LET prev == prev_month_review_count(x, F)
  IN IF IsNull(prev) \/ Val(prev) = 0 THEN Null
     ELSE Some([num |-> x.review_count_monthly - Val(prev), den |-> Val(prev)])

photo_count_monthly == 0

\* the tip weight is the review weight
engagement_score_tip_weight(x) ==
  x.review_count_monthly * 100 + x.tip_count_monthly * 100
    + photo_count_monthly * 25 + x.checkin_count_monthly * 20

\* in hundredths: the weights 1.0, 0.5, 0.25 and 0.2 are 100, 50, 25 and 20
engagement_score(x) ==
  x.review_count_monthly * 100 + x.tip_count_monthly * 50
    + photo_count_monthly * 25 + x.checkin_count_monthly * 20

\* F.format_string("%04d%02d", year, month)
month_id(x) == Digits(x.year, 4) \o Digits(x.month, 2)

fact_business_performance_row(x, F) ==
  [business_id |-> x.business_id,
   month_id |-> month_id(x),
   review_count |-> x.review_count_monthly,
   checkin_count |-> x.checkin_count_monthly,
   tip_count |-> x.tip_count_monthly,
   photo_count |-> photo_count_monthly,
   engagement_score |-> engagement_score(x),
   growth_rate |-> review_growth_rate(x, F)]

owners_fact_business_performance ==
  LET F == fact_table_monthly_joined
  IN MapBag(LAMBDA x : fact_business_performance_row(x, F), F)

main ==
  /\ pc = "load"
  /\ pc' = "owners"
  /\ dim_date' = owners_dim_date
  /\ dim_business' = owners_dim_business
  /\ fact_business_performance' = owners_fact_business_performance
  /\ dim_location' = owners_dim_location
  /\ \E ids \in CategoryIds :
       /\ dim_category' = owners_dim_category(ids)
       /\ fact_business_categories' =
            owners_fact_business_categories(owners_dim_category(ids))
  /\ UNCHANGED <<inputs, inv_out, mkt_out, source_file, run_vars>>

\* ======================================================= investorsETL.py

\* df[column] raises KeyError on the DataFrame of a file without records
inv_missing_column ==
  df_business = <<>> \/ df_review = EmptyBag \/ df_checkin = EmptyBag

\* pd.to_datetime(df_review['date']) raises on a string that is no date
inv_review_date_raises == \E r \in DOMAIN df_review : IsNull(to_date(r.date))

\* Series.map(business_key_map) raises when business_nk is not unique
inv_map_raises ==
  \E i, j \in DOMAIN df_business :
     i # j /\ df_business[i].business_id = df_business[j].business_id

\* df_checkin['date'].str.split(', ').explode(), then
\* pd.to_datetime(errors='coerce').dt.date
inv_checkin_exploded ==
  ExplodeBag(LAMBDA c : c.date,
             LAMBDA c, e : [business_id |-> c.business_id, date |-> to_date(e)],
             df_checkin)

RECURSIVE SortedSeq(_)
SortedSeq(S) ==
  IF S = {} THEN <<>>
  ELSE LET lo == CHOOSE x \in S : \A y \in S : x <= y
       IN <<lo>> \o SortedSeq(S \ {lo})

create_dim_date_row(d) ==
  LET c == CivilFromDays(d)
      dow == (d + 3) % 7
  IN [date_key |-> DigitsToInt(date_format(Some(d))),
      full_date |-> d,
      year |-> c.y,
      month |-> c.m,
      day |-> c.d,
      day_of_week |-> dow,
      quarter |-> (c.m + 2) \div 3,
      is_weekend |-> dow \in {5, 6}]

create_dim_date ==
  LET review_dts == {to_date(r.date) : r \in DOMAIN df_review}
      checkin_dts == {c.date : c \in DOMAIN inv_checkin_exploded}
      all == SortedSeq({Val(dt) : dt \in {x \in review_dts \cup checkin_dts : ~IsNull(x)}})
  IN [i \in DOMAIN all |-> create_dim_date_row(all[i])]

\* DataFrame.drop_duplicates(): the first occurrence of each row, in order
RECURSIVE drop_duplicates(_)
drop_duplicates(rows) ==
  IF rows = <<>> THEN <<>>
  ELSE LET before == drop_duplicates(SubSeq(rows, 1, Len(rows) - 1))
           last == rows[Len(rows)]
       IN IF \E i \in DOMAIN before : before[i] = last
          THEN before
          ELSE Append(before, last)

\* Series.explode(): the elements of the lists, in order
RECURSIVE explode(_)
explode(lists) ==
  IF lists = <<>> THEN <<>> ELSE Head(lists) \o explode(Tail(lists))

location_columns(b) ==
  [city |-> b.city, state |-> b.state, postal_code |-> b.postal_code,
   latitude |-> b.latitude, longitude |-> b.longitude]

create_dim_location ==
  LET df_loc == drop_duplicates([i \in DOMAIN df_business |->
                                   location_columns(df_business[i])])
  IN [i \in DOMAIN df_loc |-> [location_key |-> i] @@ df_loc[i]]

\* df_business['categories'].fillna('').str.split(', ')
inv_categories(b) ==
  str_split(IF IsNull(b.categories) THEN EmptyString ELSE Val(b.categories), <<>>)

create_dim_category ==
  LET all_categories ==
        explode([i \in DOMAIN df_business |-> inv_categories(df_business[i])])
      unique_categories ==
        drop_duplicates(SelectSeq(all_categories, LAMBDA e : e # EmptyString))
  IN [i \in DOMAIN unique_categories |->
        [category_key |-> i, category_name |-> unique_categories[i]]]

\* pd.merge(how='left') on the location columns gives location_key
create_dim_business ==
  LET df_location == create_dim_location
  IN [i \in DOMAIN df_business |->
        [business_key |-> i,
         business_nk |-> df_business[i].business_id,
         name |-> df_business[i].name,
         location_key |->
           df_location[CHOOSE k \in DOMAIN df_location :
                         location_columns(df_location[k])
                           = location_columns(df_business[i])].location_key,
         review_count |-> df_business[i].review_count]]

inv_category_key(e, dimc) ==
  LET hit == {i \in DOMAIN dimc : dimc[i].category_name = e}
  IN IF hit = {} THEN Null ELSE Some(dimc[CHOOSE i \in hit : TRUE].category_key)

\* a natural key mapped through the key column of a dimension
inv_business_key(b, dim) ==
  LET hit == {i \in DOMAIN dim : dim[i].business_nk = b}
  IN IF hit = {} THEN Null ELSE Some(dim[CHOOSE i \in hit : TRUE].business_key)

inv_date_key(dt, dim) ==
  LET hit == {i \in DOMAIN dim : ~IsNull(dt) /\ dim[i].full_date = Val(dt)}
  IN IF hit = {} THEN Null ELSE Some(dim[CHOOSE i \in hit : TRUE].date_key)

InvKey(x) == [business_key |-> x.business_key, date_key |-> x.date_key]

create_fact_business_performance(dimb, dimd) ==
  LET df_rev ==
        FilterBag(LAMBDA r : ~IsNull(r.business_key) /\ ~IsNull(r.date_key),
          MapBag(LAMBDA r : [review_id |-> r.review_id,
                             business_key |-> inv_business_key(r.business_id, dimb),
                             date_key |-> inv_date_key(to_date(r.date), dimd)],
                 df_review))
      review_agg == GroupCount(InvKey, LAMBDA r : ~IsNull(r.review_id), df_rev)
      df_chk ==
        FilterBag(LAMBDA c : ~IsNull(c.business_key) /\ ~IsNull(c.date_key),
          MapBag(LAMBDA c : [business_key |-> inv_business_key(c.business_id, dimb),
                             date_key |-> inv_date_key(c.date, dimd)],
                 FilterBag(LAMBDA c : ~IsNull(c.date), inv_checkin_exploded)))
      checkin_agg == GroupCount(InvKey, LAMBDA c : TRUE, df_chk)
      Merged(k) ==
        [business_key |-> Val(k.business_key),
         date_key |-> Val(k.date_key),
         review_count |-> IF k \in DOMAIN review_agg THEN review_agg[k] ELSE 0,
         checkin_count |-> IF k \in DOMAIN checkin_agg THEN checkin_agg[k] ELSE 0]
  IN [row \in {Merged(k) : k \in DOMAIN review_agg \cup DOMAIN checkin_agg} |-> 1]

\* explode, drop '', map both keys, dropna().drop_duplicates()
create_fact_business_categories(dimc, dimb) ==
  LET df_exploded ==
        UNION {{[business_key |-> inv_business_key(df_business[i].business_id, dimb),
                 category_key |-> inv_category_key(e, dimc)] :
                  e \in {x \in {inv_categories(df_business[i])[j] :
                                  j \in DOMAIN inv_categories(df_business[i])} :
                           x # EmptyString}} :
               i \in DOMAIN df_business}
      kept == {r \in df_exploded : ~IsNull(r.business_key) /\ ~IsNull(r.category_key)}
  IN [row \in {[business_key |-> Val(r.business_key),
                 category_key |-> Val(r.category_key)] : r \in kept} |-> 1]

investors_main ==
  /\ pc = "load"
  /\ pc' = "investors"
  /\ IF inv_missing_column \/ inv_review_date_raises \/ inv_map_raises
     THEN /\ inv_status' = "error"
          /\ UNCHANGED <<inv_dim_date, inv_dim_business, inv_fact_perf,
                         inv_dim_location, inv_dim_category, inv_fact_categories>>
     ELSE /\ inv_status' = "ok"
          /\ inv_dim_date' = create_dim_date
          /\ inv_dim_business' = create_dim_business
          /\ inv_fact_perf' =
               create_fact_business_performance(create_dim_business, create_dim_date)
          /\ inv_dim_location' = create_dim_location
          /\ inv_dim_category' = create_dim_category
          /\ inv_fact_categories' =
               create_fact_business_categories(create_dim_category,
                                               create_dim_business)
  /\ UNCHANGED <<inputs, owners_out, mkt_out, source_file, run_vars>>

\* ======================================================= marketingETL.py

\* a column of a file without records cannot be resolved
mkt_missing_column ==
  \/ df_business = <<>>
  \/ df_review = EmptyBag
  \/ df_tip = EmptyBag
  \/ df_checkin = EmptyBag

DayNames ==
  <<"Sunday", "Monday", "Tuesday", "Wednesday", "Thursday", "Friday", "Saturday">>

mkt_dim_date_row(dt) ==
  [date_id |-> DigitsToInt(date_format(dt)),
   full_date |-> Val(dt),
   day |-> CivilFromDays(Val(dt)).d,
   month |-> Val(month(dt)),
   quarter |-> Val(quarter(dt)),
   year |-> Val(year(dt)),
   day_of_week |-> DayNames[Val(dayofweek(dt))]]

\* to_timestamp(..., "yyyy-MM-dd HH:mm:ss"), then to_date, distinct, na.drop
mkt_distinct_dates ==
  FilterBag(LAMBDA dt : ~IsNull(dt),
            Distinct((review_dates (+) tip_dates) (+) checkin_dates))

marketing_dim_date == MapBag(mkt_dim_date_row, mkt_distinct_dates)

\* dim_business.select("business_id", F.explode("categories")), filtered on
\* category != "": no distinct
bridge_business_category ==
  FilterBag(LAMBDA r : r.category # EmptyString,
    ExplodeBag(LAMBDA b : IF IsNull(category_array(b)) THEN <<>>
                          ELSE Val(category_array(b)),
               LAMBDA b, e : [business_id |-> b.business_id, category |-> e],
               SeqToBag(df_business)))

marketing_main ==
  /\ pc = "load"
  /\ pc' = "marketing"
  /\ IF mkt_missing_column
     THEN mkt_status' = "error" /\ UNCHANGED <<mkt_dim_date, mkt_bridge>>
     ELSE /\ mkt_status' = "ok"
          /\ mkt_dim_date' = marketing_dim_date
          /\ mkt_bridge' = bridge_business_category
  /\ UNCHANGED <<inputs, owners_out, inv_out, source_file, run_vars>>

Next ==
  \/ LoadBusiness
  \/ LoadCheckin
  \/ LoadReview
  \/ LoadTip
  \/ main
  \/ investors_main
  \/ marketing_main

Spec == Init /\ [][Next]_vars

\* the scripts run on listings
NextListings ==
  \/ LoadListing
  \/ LoadActivity
  \/ main
  \/ investors_main
  \/ marketing_main

SpecListings == Init /\ [][NextListings]_vars

\* ======================================================== the steps of a run
\* A run of a script over source files that are present and readable,
\* absent, or present and not readable. The steps follow the statements of
\* the script: the loads in their order, then the tables in their order.

Scripts == {"owners", "investors"}

\* owners: load_data is called for business, checkin, review, tip
OwnersLoadOrder == <<"business", "checkin", "review", "tip">>

\* owners: each table is shown and written before the next one is defined;
\* the sources its plan reads
OwnersTables ==
  <<[table |-> "Dim_Date", reads |-> {"review", "tip", "checkin"}],
    [table |-> "Dim_Location", reads |-> {"business"}],
    [table |-> "Dim_Category", reads |-> {"business"}],
    [table |-> "Fact_Business_Categories", reads |-> {"business"}],
    [table |-> "Dim_Business", reads |-> {"business", "review"}],
    [table |-> "Fact_Business_Performance", reads |-> {"review", "checkin", "tip"}]>>

\* investors: load_json_lines is called for business, review, checkin
InvestorsLoadOrder == <<"business", "review", "checkin">>

\* investors: save_to_parquet is called for the six tables after all are built
InvestorsTables ==
  <<"Dim_Location", "Dim_Category", "Dim_Date", "Dim_Business",
    "Fact_Business_Categories", "Fact_Business_Performance">>

RequiredSources(script) ==
  IF script = "owners" THEN {OwnersLoadOrder[i] : i \in DOMAIN OwnersLoadOrder}
  ELSE {InvestorsLoadOrder[i] : i \in DOMAIN InvestorsLoadOrder}

data_vars == <<inputs, pc, owners_out, inv_out, mkt_out>>

\* the files of a run are in any state
InitRun ==
  /\ InitTables
  /\ source_file \in [SourceFiles -> FileStates]

StartRun ==
  /\ run_script = "none"
  /\ \E script \in Scripts : run_script' = script
  /\ run_step' = 1
  /\ UNCHANGED <<data_vars, source_file, run_status, run_loaded, run_written>>

\* spark.read.schema(schema).json(path) inside try/except with re-raise: an
\* absent path raises at once; with a schema given nothing is read yet, so a
\* file that is present and not readable gives a frame, or raises at once
\* when already its listing fails
load_data ==
  /\ run_script = "owners" /\ run_status = "running"
  /\ run_step \in DOMAIN OwnersLoadOrder
  /\ LET f == OwnersLoadOrder[run_step]
     IN \/ /\ source_file[f] \in {"ok", "unreadable"}
           /\ run_loaded' = run_loaded \cup {f}
           /\ run_step' = run_step + 1
           /\ UNCHANGED run_status
        \/ /\ source_file[f] \in {"missing", "unreadable"}
           /\ run_status' = "raised"
           /\ UNCHANGED <<run_loaded, run_step>>
  /\ UNCHANGED <<data_vars, source_file, run_script, run_written>>

\* table.show(...) and table.write.parquet(...): the first action on the
\* plan of the table reads its sources
owners_write_table ==
  /\ run_script = "owners" /\ run_status = "running"
  /\ run_step > Len(OwnersLoadOrder)
  /\ LET t == OwnersTables[run_step - Len(OwnersLoadOrder)]
     IN IF \A f \in t.reads : source_file[f] = "ok"
        THEN /\ run_written' = run_written \cup {t.table}
             /\ run_step' = run_step + 1
             /\ run_status' = IF run_step - Len(OwnersLoadOrder) = Len(OwnersTables)
                              THEN "done" ELSE "running"
        ELSE /\ run_status' = "raised"
             /\ UNCHANGED <<run_written, run_step>>
  /\ UNCHANGED <<data_vars, source_file, run_script, run_loaded>>

\* load_json_lines: None for a file that is absent or cannot be read, and
\* the next file is loaded all the same
load_json_lines ==
  /\ run_script = "investors" /\ run_status = "running"
  /\ run_step \in DOMAIN InvestorsLoadOrder
  /\ LET f == InvestorsLoadOrder[run_step]
     IN run_loaded' = IF source_file[f] = "ok" THEN run_loaded \cup {f}
                      ELSE run_loaded
  /\ run_step' = run_step + 1
  /\ UNCHANGED <<data_vars, source_file, run_script, run_status, run_written>>

\* if df_business_raw is None or df_review_raw is None or df_checkin_raw is
\* None: nothing is built; else the six tables are built
investors_check_sources ==
  /\ run_script = "investors" /\ run_status = "running"
  /\ run_step = Len(InvestorsLoadOrder) + 1
  /\ IF run_loaded = RequiredSources("investors")
     THEN run_step' = run_step + 1 /\ UNCHANGED run_status
     ELSE run_status' = "aborted" /\ UNCHANGED run_step
  /\ UNCHANGED <<data_vars, source_file, run_script, run_loaded, run_written>>

save_to_parquet ==
  /\ run_script = "investors" /\ run_status = "running"
  /\ run_step > Len(InvestorsLoadOrder) + 1
  /\ LET k == run_step - Len(InvestorsLoadOrder) - 1
     IN /\ run_written' = run_written \cup {InvestorsTables[k]}
        /\ run_status' = IF k = Len(InvestorsTables) THEN "done" ELSE "running"
  /\ run_step' = run_step + 1
  /\ UNCHANGED <<data_vars, source_file, run_script, run_loaded>>

NextRun ==
  \/ StartRun
  \/ load_data
  \/ owners_write_table
  \/ load_json_lines
  \/ investors_check_sources
  \/ save_to_parquet

SpecRun == InitRun /\ [][NextRun]_vars

\* ================================================================ claims

RanOwners == pc = "owners"

FactRows == DOMAIN fact_business_performance

MonthNum(r) == DigitsToInt(r.month_id)

\* the fact rows of r's entity that come before r in (year, month) order
EarlierFactRows(r) ==
  {q \in FactRows : q.business_id = r.business_id /\ MonthNum(q) < MonthNum(r)}

\* the last of them
PrevFactRow(r) ==
  CHOOSE q \in EarlierFactRows(r) :
    \A z \in EarlierFactRows(r) : MonthNum(z) <= MonthNum(q)

\* "yyyyMM" and "yyyyMMdd" of a date string, read off its own digits
EventMonth(t) == Digits(t.y, 4) \o Digits(t.m, 2)
DateText(t) == EventMonth(t) \o Digits(t.d, 2)

\* the events of entity b in month mid (a "yyyyMM"), counted in the sources
ReviewsIn(b, mid) ==
  SumFcn([r \in {x \in DOMAIN df_review :
                   /\ x.business_id = b
                   /\ IsCalendarDate(x.date)
                   /\ EventMonth(x.date) = mid} |-> df_review[r]])

TipsIn(b, mid) ==
  SumFcn([t \in {x \in DOMAIN df_tip :
                   /\ x.business_id = b
                   /\ IsCalendarDate(x.date)
                   /\ EventMonth(x.date) = mid} |-> df_tip[t]])

CheckinsIn(b, mid) ==
  SumFcn([c \in {x \in DOMAIN df_checkin : x.business_id = b} |->
            df_checkin[c] * Cardinality({i \in DOMAIN c.date :
                                           /\ IsCalendarDate(c.date[i])
                                           /\ EventMonth(c.date[i]) = mid})])

\* C1: in the performance fact table the growth rate of a row is null
\* whenever the entity has no earlier fact row in (year, month) order or
\* the review count of the previous row is 0.
C1_GrowthNullWithoutPrior ==
  RanOwners =>
    \A r \in FactRows :
      (EarlierFactRows(r) = {} \/ PrevFactRow(r).review_count = 0)
        => IsNull(r.growth_rate)

\* C1 witness: a month with reviews that follows a real month of the same
\* entity without reviews, and an entity with a single active month.
C1_Witness ==
  /\ RanOwners
  /\ \E r \in FactRows :
       /\ EarlierFactRows(r) # {}
       /\ PrevFactRow(r).review_count = 0
       /\ PrevFactRow(r).month_id = EventMonth(D_2017_12_31)
       /\ r.review_count > 0
  /\ \E r \in FactRows :
       \A q \in FactRows : q.business_id = r.business_id => q = r

\* the month after the month numbered n (a yyyyMM read as an integer)
MonthAfter(n) == IF n % 100 = 12 THEN n + 89 ELSE n + 1

\* C2: when an entity has fact rows for two consecutive months, the first
\* with review count p > 0 and the second with review count c, the growth
\* rate of the second is (c - p) / p.
C2_GrowthIsRelativeChange ==
  RanOwners =>
    \A r, q \in FactRows :
      (/\ q.business_id = r.business_id
       /\ MonthNum(r) = MonthAfter(MonthNum(q))
       /\ q.review_count > 0) =>
        LET p == q.review_count
        IN /\ ~IsNull(r.growth_rate)
           /\ Val(r.growth_rate).den # 0
           /\ Val(r.growth_rate).num * p = (r.review_count - p) * Val(r.growth_rate).den

\* C2 witness: one review in 2017-12, two in 2018-01: the growth rate is 1.
C2_Witness ==
  /\ RanOwners
  /\ \E r \in FactRows :
       /\ r.month_id = EventMonth(D_2018_01_07)
       /\ r.review_count = 2
       /\ EarlierFactRows(r) # {}
       /\ PrevFactRow(r).month_id = EventMonth(D_2017_12_30)
       /\ PrevFactRow(r).review_count = 1
       /\ r.growth_rate = Some([num |-> 1, den |-> 1])

\* C3: engagement_score is review_count * 1.0 + tip_count * 0.5 +
\* checkin_count * 0.2 (here in hundredths), the photo term being 0.
C3_EngagementScore ==
  RanOwners =>
    \A r \in FactRows :
      /\ r.photo_count = 0
      /\ r.engagement_score =
           r.review_count * 100 + r.tip_count * 50 + r.checkin_count * 20

\* C3 witness: a month with a review, a tip and a checkin (score 1.7).
C3_Witness ==
  /\ RanOwners
  /\ \E r \in FactRows :
       /\ r.review_count = 1 /\ r.tip_count = 1 /\ r.checkin_count = 1
       /\ r.engagement_score = 170

\* the keys of the three monthly aggregates, and a key as the fact table
\* writes it
AggregateKeys ==
  (DOMAIN review_agg_monthly \cup DOMAIN checkin_agg_monthly)
    \cup DOMAIN tip_agg_monthly

WrittenKey(k) ==
  <<k.business_id, Digits(Fill0(k.year), 4) \o Digits(Fill0(k.month), 2)>>

\* C4: the (entity, month) keys of the fact table are the union of the keys
\* of the monthly review, checkin and tip aggregates, one fact row per key.
C4_KeysAreUnionOfAggregates ==
  RanOwners =>
    /\ {<<r.business_id, r.month_id>> : r \in FactRows}
         = {WrittenKey(k) : k \in AggregateKeys}
    /\ \A r \in FactRows : fact_business_performance[r] = 1
    /\ \A r, q \in FactRows :
         (r.business_id = q.business_id /\ r.month_id = q.month_id) => r = q
    /\ Cardinality(FactRows) = Cardinality(AggregateKeys)

\* C4 witness: an entity-month with checkins only, beside a month with
\* reviews.
C4_Witness ==
  /\ RanOwners
  /\ \E r, q \in FactRows :
       /\ r.checkin_count > 0 /\ r.review_count = 0 /\ r.tip_count = 0
       /\ r.month_id = EventMonth(D_2018_02_05)
       /\ q.review_count > 0

\* C5: in every fact row the three counts equal the numbers of reviews,
\* checkin timestamps and tips of the entity that fall in the month.
C5_CountsEqualEvents ==
  RanOwners =>
    \A r \in FactRows :
      /\ r.review_count = ReviewsIn(r.business_id, r.month_id)
      /\ r.checkin_count = CheckinsIn(r.business_id, r.month_id)
      /\ r.tip_count = TipsIn(r.business_id, r.month_id)

IsMonthId(mid) ==
  /\ Len(mid) = 6
  /\ DigitsToInt(SubSeq(mid, 1, 4)) >= 1
  /\ DigitsToInt(SubSeq(mid, 5, 6)) \in 1..12

\* C6: every fact row is a real calendar month with at least one review,
\* checkin or tip: no row has three counts of 0 or a month key that is no
\* YYYYMM.
C6_RowsAreActiveMonths ==
  RanOwners =>
    \A r \in FactRows :
      /\ r.review_count + r.checkin_count + r.tip_count > 0
      /\ IsMonthId(r.month_id)
      /\ ReviewsIn(r.business_id, r.month_id)
           + CheckinsIn(r.business_id, r.month_id)
           + TipsIn(r.business_id, r.month_id) > 0

\* the date strings of the sources, and those that are calendar dates
ReviewDateStrings == {r.date : r \in DOMAIN df_review}
TipDateStrings == {t.date : t \in DOMAIN df_tip}
CheckinDateStrings ==
  UNION {{c.date[i] : i \in DOMAIN c.date} : c \in DOMAIN df_checkin}

CalendarDates(S) == {t \in S : IsCalendarDate(t)}

\* a YYYYMMDD key decoded, from its digits and from its integer
DecodeDigits(ds) ==
  [y |-> DigitsToInt(SubSeq(ds, 1, 4)),
   m |-> DigitsToInt(SubSeq(ds, 5, 6)),
   d |-> DigitsToInt(SubSeq(ds, 7, 8))]

DecodeInt(k) == [y |-> k \div 10000, m |-> (k \div 100) % 100, d |-> k % 100]

HasMalformedElement(c) == \E i \in DOMAIN c.date : ~IsCalendarDate(c.date[i])

\* C8: a checkin string with an element that is no date still contributes
\* each of its other dates to the date dimension and to the checkin counts
\* of the entity, which count the valid elements and nothing else.
C8_MalformedCheckinElement ==
  /\ RanOwners =>
       \A c \in DOMAIN df_checkin : HasMalformedElement(c) =>
         \A j \in DOMAIN c.date : IsCalendarDate(c.date[j]) =>
           /\ \E row \in DOMAIN dim_date : row.date_id = DateText(c.date[j])
           /\ \E r \in FactRows :
                /\ r.business_id = c.business_id
                /\ r.month_id = EventMonth(c.date[j])
                /\ r.checkin_count = CheckinsIn(c.business_id, r.month_id)
                /\ r.checkin_count > 0
  /\ inv_status = "ok" =>
       \A c \in DOMAIN df_checkin : HasMalformedElement(c) =>
         \A j \in DOMAIN c.date : IsCalendarDate(c.date[j]) =>
           /\ \E i \in DOMAIN inv_dim_date :
                DecodeInt(inv_dim_date[i].date_key) = c.date[j]
           /\ \A b \in DOMAIN inv_dim_business :
                inv_dim_business[b].business_nk = c.business_id =>
                  \E r \in DOMAIN inv_fact_perf :
                    /\ r.business_key = inv_dim_business[b].business_key
                    /\ DecodeInt(r.date_key) = c.date[j]
                    /\ r.checkin_count =
                         SumFcn([x \in {y \in DOMAIN df_checkin :
                                          y.business_id = c.business_id} |->
                                   df_checkin[x] *
                                     Cardinality({i \in DOMAIN x.date :
                                                    x.date[i] = c.date[j]})])

\* C8 witness: the checkin string "<no date>, 2018-02-05 ..." of an entity.
C8_Witness ==
  /\ RanOwners
  /\ \E c \in DOMAIN df_checkin :
       /\ c.date = <<D_2018_02_30, D_2018_02_05>>
       /\ \E r \in FactRows :
            /\ r.business_id = c.business_id
            /\ r.month_id = EventMonth(D_2018_02_05)
            /\ r.checkin_count = 1

\* the review records of entity b
ReviewsOf(b) ==
  SumFcn([r \in {x \in DOMAIN df_review : x.business_id = b} |-> df_review[r]])

\* C9: the lifetime review count of every entity of the business dimension
\* is the number of review records with its business id, 0 when it has none.
C9_LifetimeReviewCount ==
  /\ RanOwners =>
       \A row \in DOMAIN dim_business :
         row.overall_review_count = ReviewsOf(row.business_id)
  /\ inv_status = "ok" =>
       \A i \in DOMAIN inv_dim_business :
         inv_dim_business[i].review_count
           = ReviewsOf(inv_dim_business[i].business_nk)

SourceBusinessIds == {df_business[i].business_id : i \in DOMAIN df_business}

\* C10: the business dimension has exactly one row per business_id of the
\* business source, also when a business_id occurs on several records.
C10_OneRowPerBusiness ==
  /\ RanOwners =>
       /\ {row.business_id : row \in DOMAIN dim_business} = SourceBusinessIds
       /\ \A b \in SourceBusinessIds :
            SumFcn([row \in {x \in DOMAIN dim_business : x.business_id = b} |->
                      dim_business[row]]) = 1
  /\ inv_status = "ok" =>
       /\ {inv_dim_business[i].business_nk : i \in DOMAIN inv_dim_business}
            = SourceBusinessIds
       /\ \A i, j \in DOMAIN inv_dim_business :
            inv_dim_business[i].business_nk = inv_dim_business[j].business_nk
              => i = j

\* ------------------------------------------------ categories and locations

RanInvestors == inv_status = "ok"
RanMarketing == mkt_status = "ok"

\* the elements of a category string, read off the positions of its commas:
\* element k lies between comma k-1 and comma k, without the spaces that
\* follow comma k-1
CommaPositions(str) == {i \in DOMAIN str : str[i] = ","}

RECURSIVE SkipSpaces(_)
SkipSpaces(str) ==
  IF str # <<>> /\ Head(str) = " " THEN SkipSpaces(Tail(str)) ELSE str

Element(str, k) ==
  LET commas == CommaPositions(str)
      Before(i) == Cardinality({c \in commas : c < i})
      from == IF k = 1 THEN 1
              ELSE (CHOOSE c \in commas : Before(c) = k - 2) + 1
      to == IF k = Cardinality(commas) + 1 THEN Len(str)
            ELSE (CHOOSE c \in commas : Before(c) = k - 1) - 1
  IN IF k = 1 THEN SubSeq(str, from, to) ELSE SkipSpaces(SubSeq(str, from, to))

Elements(str) == [k \in 1..(Cardinality(CommaPositions(str)) + 1) |-> Element(str, k)]

\* the elements of the category list of a business record; none for null
CategoryList(b) == IF IsNull(b.categories) THEN <<>> ELSE Elements(Val(b.categories))

IsLabel(e) == e # EmptyString /\ e # NullLiteral

\* C11: the category bridge has no duplicate (entity, category) pair: an
\* entity that lists a category twice is linked to it by exactly one row.
C11_BridgeHasNoDuplicatePairs ==
  /\ RanOwners =>
       \A row \in DOMAIN fact_business_categories :
         fact_business_categories[row] = 1
  /\ RanInvestors =>
       \A row \in DOMAIN inv_fact_categories : inv_fact_categories[row] = 1
  /\ RanMarketing =>
       \A row \in DOMAIN mkt_bridge : mkt_bridge[row] = 1

\* C12: every bridge row names a category key of the category dimension and
\* an entity of the business dimension, and every (entity, category) pair
\* of the exploded category lists whose category is a label is in the bridge.
C12_BridgeReferentialIntegrity ==
  /\ RanOwners =>
       /\ \A row \in DOMAIN fact_business_categories :
            /\ \E d \in DOMAIN dim_category : d.category_id = row.category_id
            /\ \E e \in DOMAIN dim_business : e.business_id = row.business_id
       /\ \A i \in DOMAIN df_business :
            \A k \in DOMAIN CategoryList(df_business[i]) :
              IsLabel(CategoryList(df_business[i])[k]) =>
                \E d \in DOMAIN dim_category :
                  /\ d.category_name = CategoryList(df_business[i])[k]
                  /\ [business_id |-> df_business[i].business_id,
                      category_id |-> d.category_id]
                       \in DOMAIN fact_business_categories
  /\ RanInvestors =>
       /\ \A row \in DOMAIN inv_fact_categories :
            /\ \E d \in DOMAIN inv_dim_category :
                 inv_dim_category[d].category_key = row.category_key
            /\ \E e \in DOMAIN inv_dim_business :
                 inv_dim_business[e].business_key = row.business_key
       /\ \A i \in DOMAIN df_business :
            \A k \in DOMAIN inv_categories(df_business[i]) :
              IsLabel(inv_categories(df_business[i])[k]) =>
                \E d \in DOMAIN inv_dim_category, e \in DOMAIN inv_dim_business :
                  /\ inv_dim_category[d].category_name
                       = inv_categories(df_business[i])[k]
                  /\ inv_dim_business[e].business_nk = df_business[i].business_id
                  /\ [business_key |-> inv_dim_business[e].business_key,
                      category_key |-> inv_dim_category[d].category_key]
                       \in DOMAIN inv_fact_categories

\* C12 witness: two entities, one of them with the categories "A, a".
C12_Witness ==
  /\ RanOwners
  /\ \E i \in DOMAIN df_business : df_business[i].categories = Some(Cat_A_a)
  /\ Cardinality(DOMAIN fact_business_categories) >= 3
  /\ Cardinality({row.business_id : row \in DOMAIN fact_business_categories}) = 2

\* a label without its surrounding spaces, in lower case
RECURSIVE Trim(_)
Trim(str) ==
  IF str = <<>> THEN str
  ELSE IF Head(str) = " " THEN Trim(Tail(str))
  ELSE IF str[Len(str)] = " " THEN Trim(SubSeq(str, 1, Len(str) - 1))
  ELSE str

Normalized(str) == lower(Trim(str))

\* C13: every category_name of the category dimension is trimmed, is not
\* empty and not "null", and is the only row for its label: labels that
\* differ only in surrounding spaces or letter case share one row.
C13_CategoryNamesNormalized ==
  /\ RanOwners =>
       /\ \A row \in DOMAIN dim_category :
            /\ dim_category[row] = 1
            /\ row.category_name = Trim(row.category_name)
            /\ IsLabel(row.category_name)
       /\ \A r, q \in DOMAIN dim_category :
            Normalized(r.category_name) = Normalized(q.category_name) => r = q
  /\ RanInvestors =>
       /\ \A i \in DOMAIN inv_dim_category :
            /\ inv_dim_category[i].category_name
                 = Trim(inv_dim_category[i].category_name)
            /\ IsLabel(inv_dim_category[i].category_name)
       /\ \A i, j \in DOMAIN inv_dim_category :
            Normalized(inv_dim_category[i].category_name)
              = Normalized(inv_dim_category[j].category_name) => i = j

\* the (city, state, postal_code, latitude, longitude) tuples of the source
SourceLocations == {location_columns(df_business[i]) : i \in DOMAIN df_business}

\* C14: the location dimension has one row per distinct location tuple of
\* the business source (one row for all entities without location) and,
\* where it has a surrogate key, the keys are 1..n without repetition.
C14_LocationDimension ==
  /\ RanOwners =>
       /\ \A row \in DOMAIN dim_location : dim_location[row] = 1
       /\ {location_columns(row) : row \in DOMAIN dim_location} = SourceLocations
       /\ \A r, q \in DOMAIN dim_location :
            location_columns(r) = location_columns(q) => r = q
  /\ RanInvestors =>
       /\ {location_columns(inv_dim_location[i]) : i \in DOMAIN inv_dim_location}
            = SourceLocations
       /\ \A i, j \in DOMAIN inv_dim_location :
            location_columns(inv_dim_location[i])
              = location_columns(inv_dim_location[j]) => i = j
       /\ \A i \in DOMAIN inv_dim_location : inv_dim_location[i].location_key = i

\* ------------------------------------------------------------ failing runs

\* C15: no table is written unless every required source of the script is
\* present and readable: a run with a source that cannot be loaded ends
\* without a table.
C15_NoWriteBeforeSourcesLoaded ==
  run_written # {} =>
    \A f \in RequiredSources(run_script) : source_file[f] = "ok"

\* the review records whose date is no calendar date
MalformedReviews == {r \in DOMAIN df_review : IsNull(to_date(r.date))}

\* C16: a single review record whose date cannot be parsed is dropped and
\* the run builds its tables from the remaining records: the investors run
\* over sources that are otherwise in order ends well, and its date
\* dimension holds the dates of the other reviews and of the checkins.
C16_MalformedRecordDropped ==
  (/\ pc = "investors"
   /\ ~inv_missing_column
   /\ ~inv_map_raises
   /\ SumFcn([r \in MalformedReviews |-> df_review[r]]) = 1
   /\ MalformedReviews # DOMAIN df_review)
  => /\ inv_status = "ok"
     /\ {inv_dim_date[i].full_date : i \in DOMAIN inv_dim_date}
          = {Val(to_date(r.date)) : r \in (DOMAIN df_review) \ MalformedReviews}
            \cup {Val(c.date) : c \in {x \in DOMAIN inv_checkin_exploded :
                                         ~IsNull(x.date)}}

\* ------------------------------------------------------------- subcategory

\* the elements of a category list that are labels
Labels(b) == {k \in DOMAIN CategoryList(b) : IsLabel(CategoryList(b)[k])}

\* the second element when the list has two labels or more
SecondOfTwoLabels(b) ==
  IF Cardinality(Labels(b)) >= 2 THEN Some(CategoryList(b)[2]) ELSE Null

\* the second element when it is there and is a label
SecondIfLabel(b) ==
  IF Len(CategoryList(b)) >= 2 /\ IsLabel(CategoryList(b)[2])
  THEN Some(CategoryList(b)[2])
  ELSE Null

\* the business dimension has a row for every business record, and no other,
\* with the subcategory that Expected gives for the record
SubcategoryIs(Expected(_)) ==
  /\ \A i \in DOMAIN df_business :
       \E row \in DOMAIN dim_business :
         /\ row.business_id = df_business[i].business_id
         /\ row.name = df_business[i].name
         /\ row.subcategory = Expected(df_business[i])
  /\ \A row \in DOMAIN dim_business :
       \E i \in DOMAIN df_business :
         /\ row.business_id = df_business[i].business_id
         /\ row.name = df_business[i].name
         /\ row.subcategory = Expected(df_business[i])

\* C17 as stated: the subcategory is the second element of the category
\* list when the list has at least two elements that are neither empty nor
\* "null", and is null otherwise.
C17_SubcategoryOfTwoLabels == RanOwners => SubcategoryIs(SecondOfTwoLabels)

\* C17, amended: the subcategory is the second element of the category list
\* when the list has a second element and that element is neither empty nor
\* "null", whatever the first element is; it is null otherwise.
C17_SubcategoryIsSecondElement == RanOwners => SubcategoryIs(SecondIfLabel)

\* C17 witness: the list "null, b" has the subcategory "b"; a list with a
\* "null" second element has none.
C17_Witness ==
  /\ RanOwners
  /\ \E row \in DOMAIN dim_business :
       /\ row.business_id = "b1" /\ row.subcategory = Some(<<"b">>)
       /\ \E i \in DOMAIN df_business :
            /\ df_business[i].business_id = "b1"
            /\ df_business[i].categories = Some(Cat_null_b)
  /\ \E row \in DOMAIN dim_business :
       /\ row.business_id = "b2" /\ row.subcategory = Null
       /\ \E i \in DOMAIN df_business :
            /\ df_business[i].business_id = "b2"
            /\ df_business[i].categories = Some(Cat_a_null)

\* ----------------------------------------------------------------- weekend

\* the day of the week of a calendar date by Zeller's congruence:
\* 0 is Saturday, 1 is Sunday, 2 is Monday, ...
Zeller(c) ==
  LET m == IF c.m <= 2 THEN c.m + 12 ELSE c.m
      y == IF c.m <= 2 THEN c.y - 1 ELSE c.y
      K == y % 100
      J == y \div 100
  IN (c.d + (13 * (m + 1)) \div 5 + K + K \div 4 + J \div 4 + 5 * J) % 7

IsSaturdayOrSunday(c) == Zeller(c) \in {0, 1}

\* C18: is_weekend of a row of the date dimension is true exactly when the
\* date of the row is a Saturday or a Sunday, in the owners and in the
\* investors script, and each script flags a date as the other would.
C18_WeekendIsSaturdayOrSunday ==
  /\ RanOwners =>
       \A row \in DOMAIN dim_date :
         /\ row.is_weekend = IsSaturdayOrSunday(DecodeDigits(row.date_id))
         /\ row.is_weekend = create_dim_date_row(row.date).is_weekend
  /\ inv_status = "ok" =>
       \A i \in DOMAIN inv_dim_date :
         /\ inv_dim_date[i].is_weekend
              = IsSaturdayOrSunday(DecodeInt(inv_dim_date[i].date_key))
         /\ inv_dim_date[i].is_weekend
              = dim_date_row(Some(inv_dim_date[i].full_date)).is_weekend

\* C18 witness: a Saturday (2017-12-30) and a Sunday (2018-01-07) flagged,
\* a Monday (2018-02-05) not flagged.
C18_Witness ==
  /\ RanOwners
  /\ \E sat, sun, mon \in DOMAIN dim_date :
       /\ DecodeDigits(sat.date_id) = D_2017_12_30 /\ sat.is_weekend
       /\ DecodeDigits(sun.date_id) = D_2018_01_07 /\ sun.is_weekend
       /\ DecodeDigits(mon.date_id) = D_2018_02_05 /\ ~mon.is_weekend

\* ---------------------------------------------------------- previous month

\* C19: the growth rate of a fact row is computed against the review count p
\* of the entity's immediately preceding fact row in (year, month) order,
\* whether or not that row is the calendar month before: it is (c - p) / p
\* for p > 0 and null for p = 0.
C19_GrowthAgainstPrecedingRow ==
  RanOwners =>
    \A r \in FactRows :
      EarlierFactRows(r) # {} =>
        LET p == PrevFactRow(r).review_count
        IN IF p = 0 THEN IsNull(r.growth_rate)
           ELSE /\ ~IsNull(r.growth_rate)
                /\ Val(r.growth_rate).den # 0
                /\ Val(r.growth_rate).num * p
                     = (r.review_count - p) * Val(r.growth_rate).den

\* C19 witness: an entity active in 2017-12 (with reviews) and in 2018-02
\* and not in 2018-01; the rate of 2018-02 is computed against 2017-12.
C19_Witness ==
  /\ RanOwners
  /\ \E r \in FactRows :
       /\ r.month_id = EventMonth(D_2018_02_05)
       /\ EarlierFactRows(r) # {}
       /\ PrevFactRow(r).month_id = EventMonth(D_2017_12_30)
       /\ PrevFactRow(r).review_count > 0
       /\ ~IsNull(r.growth_rate)
       /\ \A q \in FactRows :
            q.business_id = r.business_id =>
              q.month_id # EventMonth(D_2018_01_07)

\* ------------------------------------------- subcategory and the categories

\* C20: an entity whose subcategory in the business dimension is not null
\* has that label as a row of the category dimension, and the category
\* bridge links the entity to that row.
C20_SubcategoryIsLinkedCategory ==
  RanOwners =>
    \A row \in DOMAIN dim_business :
      ~IsNull(row.subcategory) =>
        \E d \in DOMAIN dim_category :
          /\ d.category_name = Val(row.subcategory)
          /\ [business_id |-> row.business_id, category_id |-> d.category_id]
               \in DOMAIN fact_business_categories

\* C20 witness: an entity with the subcategory "b" whose first element is
\* no category, beside an entity with other categories.
C20_Witness ==
  /\ RanOwners
  /\ \E row \in DOMAIN dim_business :
       /\ row.subcategory = Some(<<"b">>)
       /\ \E d \in DOMAIN dim_category :
            /\ d.category_name = <<"b">>
            /\ \A e \in DOMAIN fact_business_categories :
                 e.business_id = row.business_id => e.category_id = d.category_id
  /\ Cardinality(DOMAIN dim_category) >= 2

\* ------------------------------------------------ monthly and lifetime counts

\* the fact rows of entity b
FactRowsOf(b) == {q \in FactRows : q.business_id = b}

\* the sum of review_count over the fact rows of entity b
MonthlyReviewSum(b) ==
  SumFcn([q \in FactRowsOf(b) |-> q.review_count * fact_business_performance[q]])

\* every review record of entity b has a date that is a calendar date
AllReviewsParse(b) ==
  \A r \in DOMAIN df_review : r.business_id = b => IsCalendarDate(r.date)

\* C21: for every entity of the business dimension whose reviews all have a
\* parseable date, the review counts of its fact rows add up to its
\* lifetime review count in the business dimension.
C21_MonthlySumIsLifetimeCount ==
  RanOwners =>
    \A row \in DOMAIN dim_business :
      AllReviewsParse(row.business_id) =>
        MonthlyReviewSum(row.business_id) = row.overall_review_count

\* C21 witness: an entity with a lifetime count of 2 made of one review in
\* each of two months.
C21_Witness ==
  /\ RanOwners
  /\ \E row \in DOMAIN dim_business :
       /\ AllReviewsParse(row.business_id)
       /\ row.overall_review_count = 2
       /\ \E q1, q2 \in FactRowsOf(row.business_id) :
            /\ q1.month_id = EventMonth(D_2017_12_30) /\ q1.review_count = 1
            /\ q2.month_id = EventMonth(D_2018_01_07) /\ q2.review_count = 1

====
